---------------------------- MODULE Spec2Model ----------------------------
(***************************************************************************)
(* State-machine model of cli/src/client.rs: the tic-tac-toe client that   *)
(* reads a game object (game), looks for a TurnCap (turn_cap) and builds,  *)
(* funds, signs and submits transactions (new_shared_game,                 *)
(* delete_shared_game, make_shared_move, build_tx_data_with_sponsor,       *)
(* select_coins, execute_transaction, execute_for_game).                   *)
(*                                                                         *)
(* Every `.await` on a collaborator (RPC node, wallet) is one action; the  *)
(* collaborator's answer is drawn from a small set with \E.  Values of     *)
(* type Option<T> are tagged records [some |-> FALSE] / [some |-> TRUE,..]; *)
(* Result<T> values are [ok |-> TRUE, ..] / [ok |-> FALSE, err |-> msg].    *)
(***************************************************************************)
EXTENDS Integers, Sequences, FiniteSets, TLC

VARIABLES
    package,      \* Client.package: the configured package id
    wallet,       \* Client.wallet: the wallet context (its active address)
    op,           \* the method being executed, "idle" between calls
    pc,           \* the suspension point of that method
    args,         \* the arguments of the call
    log,          \* collaborator interactions issued by this call, in order
    result,       \* the Result the call returned (when pc = "done")
    response,     \* game: the SuiObjectResponse of get_object_with_options
    ptb,          \* game: the dev-inspect call built at lines 144-164
    results,      \* game: the DevInspectResults
    cursor,       \* turn_cap: the cursor of the next page request
    page,         \* turn_cap: the page response that ended the call, and its scan
    scanned,      \* turn_cap: what the pages fetched so far contained
    tx,           \* build_tx_data_with_sponsor: the skeleton, sender and sponsor
    est,          \* build_tx_data_with_sponsor: locals of the gas estimation
    tx_data,      \* the finalized TransactionData
    signed,       \* the signed Transaction
    exec,         \* execute_transaction: the response of the submission
    history       \* what an earlier call of game() observed and returned

clientVars == <<package, wallet>>
callVars   == <<op, pc, args, log, result>>
gameVars   == <<response, ptb, results>>
capVars    == <<cursor, page, scanned>>
txVars     == <<tx, est, tx_data, signed, exec>>
vars       == <<package, wallet, op, pc, args, log, result, response, ptb,
                results, cursor, page, scanned, tx, est, tx_data, signed, exec,
                history>>

-----------------------------------------------------------------------------
(* Bounds of the model.                                                    *)

MaxObjId   == 2   \* object ids are 1..MaxObjId
MaxVersion == 2   \* versions and initial shared versions are 1..MaxVersion
MaxByte    == 3   \* bytes returned by the simulated call are 0..MaxByte
MaxPages   == 2   \* the owned-object listing has at most MaxPages pages
MaxPageLen == 2   \* a page holds at most MaxPageLen entries
MaxChanges == 2   \* an object-change log holds at most MaxChanges entries
MaxInputs  == 2   \* a skeleton built by a caller has at most MaxInputs object inputs

-----------------------------------------------------------------------------
(* Option and Result.                                                      *)

None == [some |-> FALSE]
Some(x) == [some |-> TRUE, v |-> x]

Err(msg) == [ok |-> FALSE, err |-> msg]

RECURSIVE SeqsUpTo(_, _)
SeqsUpTo(S, n) ==
    IF n = 0 THEN {<<>>}
    ELSE LET shorter == SeqsUpTo(S, n - 1)
         IN  shorter \cup {Append(s, x) : s \in {t \in shorter : Len(t) = n - 1}, x \in S}

-----------------------------------------------------------------------------
(* 64-bit unsigned integers, as four 16-bit limbs, least significant       *)
(* first.  The exact operators return five limbs (no value of the model    *)
(* needs more); the machine operators keep the low four, as u64 arithmetic *)
(* does when it wraps.                                                     *)

Base == 2 ^ 16
Limb == 0 .. (Base - 1)

U64(n) == <<n % Base, n \div Base, 0, 0>>
U64Max == <<Base - 1, Base - 1, Base - 1, Base - 1>>
Zero64 == <<0, 0, 0, 0>>

Pad(x, n) == [i \in 1..n |-> IF i <= Len(x) THEN x[i] ELSE 0]

RECURSIVE CarryMul(_, _, _, _)
CarryMul(x, k, i, carry) ==
    IF i > Len(x) THEN <<carry>>
    ELSE LET p == x[i] * k + carry
         IN  <<p % Base>> \o CarryMul(x, k, i + 1, p \div Base)

\* x * k exactly, for a small factor k: Len(x) + 1 limbs.
MulExact(x, k) == CarryMul(x, k, 1, 0)

RECURSIVE CarryAdd(_, _, _, _)
CarryAdd(x, y, i, carry) ==
    IF i > Len(x) THEN <<carry>>
    ELSE LET s == x[i] + y[i] + carry
         IN  <<s % Base>> \o CarryAdd(x, y, i + 1, s \div Base)

\* x + y exactly, for two numbers of the same length: Len(x) + 1 limbs.
AddExact(x, y) == CarryAdd(x, y, 1, 0)

RECURSIVE LessFrom(_, _, _)
LessFrom(x, y, i) ==
    IF i = 0 THEN FALSE
    ELSE IF x[i] # y[i] THEN x[i] < y[i]
    ELSE LessFrom(x, y, i - 1)

\* x < y, for two numbers of the same length.
Less(x, y) == LessFrom(x, y, Len(x))
Leq(x, y) == ~Less(y, x)
MaxOf(x, y) == IF Less(x, y) THEN y ELSE x

Low64(x) == SubSeq(x, 1, 4)
Overflows64(x) == \E i \in 5..Len(x) : x[i] # 0


\* The value of gas_used.net_gas_usage(), an i64: a sign and a magnitude.
I64(negative, n) == [neg |-> negative, mag |-> U64(n)]

-----------------------------------------------------------------------------
(* The values the collaborators exchange with the client.                  *)

ObjectIds == 1 .. MaxObjId
Versions  == 1 .. MaxVersion
Digests   == {"dA", "dB"}
Addresses == {"addrA", "addrB"}
ZERO      == "0x0"

\* sui_types::object::Owner
SharedOwner(v) == [tag |-> "Shared", initial_shared_version |-> v]
Owners == {SharedOwner(v) : v \in Versions}
              \cup {[tag |-> "AddressOwner"], [tag |-> "Immutable"]}

\* move_core_types::language_storage::StructTag (type_params are empty)
StructTag(a, m, n) == [address |-> a, module |-> m, name |-> n]
Modules   == {"shared", "owned", "other"}
TypeNames == {"Game", "TurnCap", "Other"}
StructTags == {StructTag(a, m, n) : a \in ObjectIds, m \in Modules, n \in TypeNames}

\* Connection.package_id, line 47: the object id of the game's package.
ConfiguredPackage == 1

\* An object id that is not pkg.
OtherPackage(pkg) == IF pkg = MaxObjId THEN 1 ELSE pkg + 1

\* ObjectID::from(AccountAddress) wraps the same 32 bytes.
ObjectIDFrom(address) == address

\* BCS payloads.  A payload says which struct it encodes; bcs::from_bytes
\* into any other struct fails.  `val` is the id field of the struct: the
\* board's UID of a game, the `game` field of a TurnCap.
Payload(e, x) == [enc |-> e, val |-> x]
Garbage == Payload("garbage", 0)

FromBytes(struct, bytes, context) ==
    IF bytes.enc = struct THEN [ok |-> TRUE, decoded |-> bytes.val]
    ELSE Err(context)

\* SuiRawData: a package, or a Move object with its type and bytes.
RawPackage == [tag |-> "Package"]
RawMove(t, b) == [tag |-> "MoveObject", type_ |-> t, bcs_bytes |-> b]

\* SuiRawData::try_as_move
TryAsMove(raw) == IF raw.tag = "MoveObject" THEN Some(raw) ELSE None

-----------------------------------------------------------------------------
(* game(): lines 79-209.                                                   *)

\* What get_object_with_options can answer for a game (show_owner, show_bcs).
GameRaws(id) ==
    {RawPackage}
        \cup {RawMove(StructTag(a, m, n), b) :
                a \in ObjectIds, m \in Modules, n \in {"Game", "Other"},
                b \in {Payload("shared", id), Payload("owned", id), Garbage}}

GameObjectData ==
    UNION {[object_id : {i}, version : Versions, digest : Digests,
            bcs : {None} \cup {Some(r) : r \in GameRaws(i)},
            owner : {None} \cup {Some(o) : o \in Owners}] : i \in ObjectIds}

GameResponses ==
    {[error |-> Some("rpc object error"), data |-> None]}
        \cup {[error |-> Some("rpc object error"), data |-> Some(d)] :
                d \in {x \in GameObjectData : x.version = 1 /\ x.digest = "dA"}}
        \cup {[error |-> None, data |-> None]}
        \cup {[error |-> None, data |-> Some(d)] : d \in GameObjectData}

\* DecodeGame with the dispatch on the module name done before the check
\* of the package.
DecodeGameDispatchFirst(r, id, pkg) ==
    IF r.error.some THEN Err(r.error.v)
    ELSE IF ~r.data.some \/ ~r.data.v.bcs.some \/ ~r.data.v.owner.some
        THEN Err("INTERNAL ERROR: No data for game.")
    ELSE LET d == r.data.v
             raw == TryAsMove(d.bcs.v)
         IN  IF ~raw.some THEN Err("It is a package, not an object.")
             ELSE IF raw.v.type_.name # "Game"
                 THEN Err("It is not a Game object")
             ELSE LET module == raw.v.type_.module
                      contents ==
                          FromBytes(module, raw.v.bcs_bytes,
                                    "Failed to deserialize contents.")
                  IN  IF module \notin {"shared", "owned"}
                          THEN Err("unrecognised Game kind")
                      ELSE IF ~contents.ok THEN contents
                      ELSE IF ObjectIDFrom(raw.v.type_.address) # pkg
                          THEN Err("It is expected to be from another package")
                      ELSE [ok |-> TRUE,
                            kind |-> [variant |-> IF module = "shared" THEN "Shared"
                                                  ELSE "Owned",
                                      contents |-> contents.decoded],
                            owner |-> d.owner.v,
                            object_id |-> d.object_id,
                            version |-> d.version,
                            digest |-> d.digest,
                            module |-> module]

\* DecodeGame with a default arm in the dispatch: a module that is not
\* `shared` is decoded as an owned game.
DecodeGameDefaultOwned(r, id, pkg) ==
    IF r.error.some THEN Err(r.error.v)
    ELSE IF ~r.data.some \/ ~r.data.v.bcs.some \/ ~r.data.v.owner.some
        THEN Err("INTERNAL ERROR: No data for game.")
    ELSE LET d == r.data.v
             raw == TryAsMove(d.bcs.v)
         IN  IF ~raw.some THEN Err("It is a package, not an object.")
             ELSE IF raw.v.type_.name # "Game"
                 THEN Err("It is not a Game object")
             ELSE IF ObjectIDFrom(raw.v.type_.address) # pkg
                 THEN Err("It is expected to be from another package")
             ELSE LET module == IF raw.v.type_.module = "shared" THEN "shared"
                                ELSE "owned"
                      contents ==
                          FromBytes(module, raw.v.bcs_bytes,
                                    "Failed to deserialize contents.")
                  IN  IF ~contents.ok THEN contents
                      ELSE [ok |-> TRUE,
                            kind |-> [variant |-> IF module = "shared" THEN "Shared"
                                                  ELSE "Owned",
                                      contents |-> contents.decoded],
                            owner |-> d.owner.v,
                            object_id |-> d.object_id,
                            version |-> d.version,
                            digest |-> d.digest,
                            module |-> module]

\* Lines 96-141: the validation checks and the dispatch on the module name.
\* Ok carries what the rest of game() keeps: kind, owner, the observed ref
\* and the module name.
DecodeGame(r, id, pkg) ==
    IF r.error.some THEN Err(r.error.v)
    ELSE IF ~r.data.some \/ ~r.data.v.bcs.some \/ ~r.data.v.owner.some
        THEN Err("INTERNAL ERROR: No data for game.")
    ELSE LET d == r.data.v
             raw == TryAsMove(d.bcs.v)
         IN  IF ~raw.some THEN Err("It is a package, not an object.")
             ELSE IF raw.v.type_.name # "Game"
                 THEN Err("It is not a Game object")
             ELSE IF ObjectIDFrom(raw.v.type_.address) # pkg
                 THEN Err("It is expected to be from another package")
             ELSE LET module == raw.v.type_.module
                      contents ==
                          FromBytes(module, raw.v.bcs_bytes,
                                    "Failed to deserialize contents.")
                  IN  IF module \notin {"shared", "owned"}
                          THEN Err("unrecognised Game kind")
                      ELSE IF ~contents.ok THEN contents
                      ELSE [ok |-> TRUE,
                            kind |-> [variant |-> IF module = "shared" THEN "Shared"
                                                  ELSE "Owned",
                                      contents |-> contents.decoded],
                            owner |-> d.owner.v,
                            object_id |-> d.object_id,
                            version |-> d.version,
                            digest |-> d.digest,
                            module |-> module]

\* sui_types::transaction::ObjectArg
SharedObject(i, v, m) ==
    [tag |-> "SharedObject", id |-> i, initial_shared_version |-> v, mutable |-> m]
ImmOrOwnedObject(i, v, d) ==
    [tag |-> "ImmOrOwnedObject", id |-> i, version |-> v, digest |-> d]

\* EndedCall with the shared object referenced by the version observed in
\* the fetch instead of its initial shared version.
EndedCallAtVersion(g, id, pkg) ==
    [package |-> pkg, module |-> g.module, function |-> "ended",
     arguments |->
        <<IF g.owner.tag = "Shared"
            THEN SharedObject(id, g.version, FALSE)
            ELSE ImmOrOwnedObject(g.object_id, g.version, g.digest)>>,
     sender |-> ZERO, skip_checks |-> TRUE]

\* Lines 144-164: the read-only call of `ended` on the fetched object.
EndedCall(g, id, pkg) ==
    [package |-> pkg, module |-> g.module, function |-> "ended",
     arguments |->
        <<IF g.owner.tag = "Shared"
            THEN SharedObject(id, g.owner.initial_shared_version, FALSE)
            ELSE ImmOrOwnedObject(g.object_id, g.version, g.digest)>>,
     sender |-> ZERO, skip_checks |-> TRUE]

\* DevInspectResults.results: Option<Vec<SuiExecutionResult>>; a result's
\* return_values is a Vec of byte vectors (the type tags are not read).
Bytes == 0 .. MaxByte
ByteVecs ==
    {<<>>} \cup {<<b>> : b \in Bytes} \cup {<<b, 0>> : b \in Bytes}
ReturnValues ==
    {<<>>} \cup {<<v>> : v \in ByteVecs} \cup {<<v, <<0>>>> : v \in ByteVecs}
ExecutionResult(rv) == [return_values |-> rv]
DevInspectResults ==
    {None, Some(<<>>)}
        \cup {Some(<<ExecutionResult(rv)>>) : rv \in ReturnValues}
        \cup {Some(<<ExecutionResult(rv), ExecutionResult(<<<<0>>>>)>>) :
                rv \in ReturnValues}

\* extract_winner with a default arm: a byte other than 1 and 2 is read as
\* Winner::None.
extract_winner_default(res) ==
    IF ~res.some THEN None
    ELSE IF res.v = <<>> THEN None
    ELSE IF res.v[1].return_values = <<>> THEN None
    ELSE IF res.v[1].return_values[1] = <<>> THEN None
    ELSE LET byte == res.v[1].return_values[1][1]
         IN  IF byte = 1 THEN Some("Draw")
             ELSE IF byte = 2 THEN Some("Win")
             ELSE Some("None")

\* Lines 181-196.  `?` on an absent results list, an empty list, an empty
\* return_values or an empty byte vector yields None.
extract_winner(res) ==
    IF ~res.some THEN None
    ELSE IF res.v = <<>> THEN None
    ELSE IF res.v[1].return_values = <<>> THEN None
    ELSE IF res.v[1].return_values[1] = <<>> THEN None
    ELSE LET byte == res.v[1].return_values[1][1]
         IN  IF byte = 0 THEN Some("None")
             ELSE IF byte = 1 THEN Some("Draw")
             ELSE IF byte = 2 THEN Some("Win")
             ELSE None

\* GameResult with the version of the Game taken from the request (the id
\* asked for) instead of the object observed.
GameResultOfRequest(g, res) ==
    LET winner == extract_winner(res)
    IN  IF ~winner.some THEN Err("Error checking game winner.")
        ELSE [ok |-> TRUE,
              game |-> [kind |-> g.kind, owner |-> g.owner, version |-> args.id,
                        digest |-> g.digest, winner |-> winner.v]]

\* Lines 198-208.
GameResult(g, res) ==
    LET winner == extract_winner(res)
    IN  IF ~winner.some THEN Err("Error checking game winner.")
        ELSE [ok |-> TRUE,
              game |-> [kind |-> g.kind, owner |-> g.owner, version |-> g.version,
                        digest |-> g.digest, winner |-> winner.v]]

-----------------------------------------------------------------------------
(* turn_cap(): lines 213-275.                                              *)

\* Lines 218-223.
TurnCapType(pkg) == StructTag(pkg, "owned", "TurnCap")

\* Object data of a listing entry (with_bcs: the owner is not requested).
CapData(i, b) == [object_id |-> i, version |-> 1, digest |-> "dA", bcs |-> b]

\* The entries get_owned_objects can list, by what the scan does with them:
\* an entry with an error, without data, without contents, a package, an
\* object of another type, a TurnCap whose bytes do not decode, and a
\* TurnCap of each game.
EntryKind(k, g) == [k |-> k, game |-> g]
EntryKinds ==
    {EntryKind(k, 0) : k \in {"error", "no data", "no bcs", "package",
                              "other package", "other name", "corrupt"}}
        \cup {EntryKind("cap", g) : g \in ObjectIds}

Entry(kind, i, pkg) ==
    IF kind.k = "error" THEN [error |-> Some("rpc entry error"), data |-> None]
    ELSE IF kind.k = "no data" THEN [error |-> None, data |-> None]
    ELSE [error |-> None,
          data |-> Some(CapData(i,
            IF kind.k = "no bcs" THEN None
            ELSE IF kind.k = "package" THEN Some(RawPackage)
            ELSE IF kind.k = "other package"
                THEN Some(RawMove(TurnCapType(OtherPackage(pkg)), Payload("TurnCap", 1)))
            ELSE IF kind.k = "other name"
                THEN Some(RawMove(StructTag(pkg, "owned", "Game"), Payload("TurnCap", 1)))
            ELSE IF kind.k = "corrupt"
                THEN Some(RawMove(TurnCapType(pkg), Garbage))
            ELSE Some(RawMove(TurnCapType(pkg), Payload("TurnCap", kind.game)))))]

\* The answer of get_owned_objects for page number n: the entries of the
\* page (their object ids are their positions in the listing), the cursor
\* to the next page and whether there is one.
PageResponse(kinds, n, more, pkg) ==
    [data |-> [i \in 1..Len(kinds) |->
                  Entry(kinds[i], (n - 1) * MaxPageLen + i, pkg)],
     next_cursor |-> IF more \/ Len(kinds) > 0 THEN Some(n) ELSE None,
     has_next_page |-> more]

\* The page a cursor asks for.
PageOf(c) == IF c.some THEN c.v + 1 ELSE 1

\* ScanPage with the test of the type left out: every typed object is
\* decoded as a TurnCap, and one that does not decode is fatal.
RECURSIVE ScanPageUntyped(_, _, _, _)
ScanPageUntyped(entries, i, game_id, pkg) ==
    IF i > Len(entries) THEN [tag |-> "exhausted", at |-> i]
    ELSE LET e == entries[i]
             next == ScanPageUntyped(entries, i + 1, game_id, pkg)
         IN  IF e.error.some THEN [tag |-> "bail", at |-> i, err |-> e.error.v]
             ELSE IF ~e.data.some \/ ~e.data.v.bcs.some THEN next
             ELSE LET raw == TryAsMove(e.data.v.bcs.v)
                  IN  IF ~raw.some THEN next
                      ELSE LET turn_cap ==
                                   FromBytes(IF raw.v.type_ = TurnCapType(pkg)
                                               THEN "TurnCap" ELSE "mismatch",
                                       raw.v.bcs_bytes,
                                       "INTERNAL ERROR: Failed to deserialize TurnCap.")
                           IN  IF ~turn_cap.ok
                                   THEN [tag |-> "bail", at |-> i, err |-> turn_cap.err]
                               ELSE IF turn_cap.decoded = game_id
                                   THEN [tag |-> "return", at |-> i,
                                         ref |-> <<e.data.v.object_id, e.data.v.version,
                                                   e.data.v.digest>>]
                               ELSE next

\* ScanPage returning the last TurnCap of the game on the page instead of
\* the first.
RECURSIVE ScanPageLast(_, _, _, _)
ScanPageLast(entries, i, game_id, pkg) ==
    IF i > Len(entries) THEN [tag |-> "exhausted", at |-> i]
    ELSE LET e == entries[i]
             next == ScanPageLast(entries, i + 1, game_id, pkg)
         IN  IF e.error.some THEN [tag |-> "bail", at |-> i, err |-> e.error.v]
             ELSE IF ~e.data.some \/ ~e.data.v.bcs.some THEN next
             ELSE LET raw == TryAsMove(e.data.v.bcs.v)
                  IN  IF ~raw.some THEN next
                      ELSE IF raw.v.type_ # TurnCapType(pkg) THEN next
                      ELSE LET turn_cap ==
                                   FromBytes("TurnCap", raw.v.bcs_bytes,
                                       "INTERNAL ERROR: Failed to deserialize TurnCap.")
                           IN  IF ~turn_cap.ok
                                   THEN [tag |-> "bail", at |-> i, err |-> turn_cap.err]
                               ELSE IF turn_cap.decoded = game_id /\ next.tag # "return"
                                   THEN [tag |-> "return", at |-> i,
                                         ref |-> <<e.data.v.object_id, e.data.v.version,
                                                   e.data.v.digest>>]
                               ELSE next

\* ScanPage with an entry that carries an error skipped like an entry
\* without content.
RECURSIVE ScanPageSkipErrors(_, _, _, _)
ScanPageSkipErrors(entries, i, game_id, pkg) ==
    IF i > Len(entries) THEN [tag |-> "exhausted", at |-> i]
    ELSE LET e == entries[i]
             next == ScanPageSkipErrors(entries, i + 1, game_id, pkg)
         IN  IF e.error.some THEN next
             ELSE IF ~e.data.some \/ ~e.data.v.bcs.some THEN next
             ELSE LET raw == TryAsMove(e.data.v.bcs.v)
                  IN  IF ~raw.some THEN next
                      ELSE IF raw.v.type_ # TurnCapType(pkg) THEN next
                      ELSE LET turn_cap ==
                                   FromBytes("TurnCap", raw.v.bcs_bytes,
                                       "INTERNAL ERROR: Failed to deserialize TurnCap.")
                           IN  IF ~turn_cap.ok
                                   THEN [tag |-> "bail", at |-> i, err |-> turn_cap.err]
                               ELSE IF turn_cap.decoded = game_id
                                   THEN [tag |-> "return", at |-> i,
                                         ref |-> <<e.data.v.object_id, e.data.v.version,
                                                   e.data.v.digest>>]
                               ELSE next

\* Lines 238-268: the scan of one page from entry i on.  It stops at the
\* first entry with an error (bail), at the first TurnCap that does not
\* decode (bail) and at the first TurnCap of the game (return); every
\* other entry is skipped.
RECURSIVE ScanPage(_, _, _, _)
ScanPage(entries, i, game_id, pkg) ==
    IF i > Len(entries) THEN [tag |-> "exhausted", at |-> i]
    ELSE LET e == entries[i]
             next == ScanPage(entries, i + 1, game_id, pkg)
         IN  IF e.error.some THEN [tag |-> "bail", at |-> i, err |-> e.error.v]
             ELSE IF ~e.data.some \/ ~e.data.v.bcs.some THEN next
             ELSE LET raw == TryAsMove(e.data.v.bcs.v)
                  IN  IF ~raw.some THEN next
                      ELSE IF raw.v.type_ # TurnCapType(pkg) THEN next
                      ELSE LET turn_cap ==
                                   FromBytes("TurnCap", raw.v.bcs_bytes,
                                       "INTERNAL ERROR: Failed to deserialize TurnCap.")
                           IN  IF ~turn_cap.ok
                                   THEN [tag |-> "bail", at |-> i, err |-> turn_cap.err]
                               ELSE IF turn_cap.decoded = game_id
                                   THEN [tag |-> "return", at |-> i,
                                         ref |-> <<e.data.v.object_id, e.data.v.version,
                                                   e.data.v.digest>>]
                               ELSE next

-----------------------------------------------------------------------------
(* The transaction skeletons: lines 279-373.                               *)

\* sui_types::transaction::CallArg.  A pure argument is its BCS bytes,
\* which differ by type: an address, or a u8.
PureAddress(a) == [tag |-> "Pure", address |-> a]
PureU8(n) == [tag |-> "Pure", u8 |-> n]
Object(o) == [tag |-> "Object", object |-> o]

\* ProgrammableTransactionBuilder::pure and ::obj: the builder keeps one
\* input per distinct argument and hands out its index.
RECURSIVE IndexOf(_, _, _)
IndexOf(inputs, arg, i) ==
    IF i > Len(inputs) THEN 0
    ELSE IF inputs[i] = arg THEN i
    ELSE IndexOf(inputs, arg, i + 1)

AddInput(inputs, arg) ==
    IF IndexOf(inputs, arg, 1) = 0 THEN Append(inputs, arg) ELSE inputs

Input(inputs, arg) == [tag |-> "Input", index |-> IndexOf(inputs, arg, 1) - 1]

\* ProgrammableTransactionBuilder::programmable_move_call and ::finish,
\* for the one call each skeleton of this client makes.
MoveCall(inputs, pkg, module, function, arguments) ==
    [inputs |-> inputs,
     command |-> [package |-> pkg, module |-> module, function |-> function,
                  arguments |-> arguments]]

\* Lines 282-292.
NewSharedGameTx(player, opponent, pkg) ==
    LET x == PureAddress(player)
        o == PureAddress(opponent)
        inputs == AddInput(AddInput(<<>>, x), o)
    IN  MoveCall(inputs, pkg, "shared", "new", <<Input(inputs, x), Input(inputs, o)>>)

\* Lines 310-324.
DeleteSharedGameTx(game, initial_shared_version, pkg) ==
    LET g == Object(SharedObject(game.board_id, initial_shared_version, TRUE))
        inputs == AddInput(<<>>, g)
    IN  MoveCall(inputs, pkg, "shared", "burn", <<Input(inputs, g)>>)

\* Lines 350-367.
MakeSharedMoveTx(game, initial_shared_version, row, col, pkg) ==
    LET g == Object(SharedObject(game.board_id, initial_shared_version, TRUE))
        r == PureU8(row)
        c == PureU8(col)
        inputs == AddInput(AddInput(AddInput(<<>>, g), r), c)
    IN  MoveCall(inputs, pkg, "shared", "place_mark",
                 <<Input(inputs, g), Input(inputs, r), Input(inputs, c)>>)

\* TransactionKind::input_objects: the object inputs in order, then the
\* package of the call.
RECURSIVE ObjectInputs(_, _)
ObjectInputs(inputs, i) ==
    IF i > Len(inputs) THEN <<>>
    ELSE IF inputs[i].tag # "Object" THEN ObjectInputs(inputs, i + 1)
    ELSE LET o == inputs[i].object
         IN  <<IF o.tag = "SharedObject"
                 THEN [tag |-> "SharedMoveObject", id |-> o.id]
                 ELSE [tag |-> "ImmOrOwnedMoveObject", id |-> o.id]>>
               \o ObjectInputs(inputs, i + 1)

InputObjects(kind) ==
    ObjectInputs(kind.inputs, 1) \o <<[tag |-> "MovePackage", id |-> kind.command.package]>>

-----------------------------------------------------------------------------
(* Gas estimation and coin selection: lines 425-519.                       *)

\* Line 488: what cfg.attributes.get("max_tx_gas") can be: absent, unset,
\* a value of another kind, or a u64.
MaxTxGas == <<29696, 42043, 11, 0>>   \* 50_000_000_000
ProtocolConfigs ==
    {[attribute |-> "absent"], [attribute |-> "unset"], [attribute |-> "U32"],
     [attribute |-> "U64", max |-> MaxTxGas]}

\* Lines 484-493, after the configuration was fetched.
max_gas_budget(cfg) ==
    IF cfg.attribute = "U64" THEN [ok |-> TRUE, max |-> cfg.max]
    ELSE Err("Couldn't find max gas budget")

GasPrices == {U64(1000), <<0, 0, 0, 4096>>}   \* 1000, 2^60

\* The cost summary of the dry run, as far as it is read: computation_cost
\* (u64) and the value of net_gas_usage() (i64).
CostSummary(computation, net) == [computation_cost |-> computation, net_gas_usage |-> net]
CostSummaries ==
    {CostSummary(U64(500000), I64(FALSE, 200000)),
     CostSummary(U64(500000), I64(FALSE, 900000)),
     CostSummary(U64(500000), I64(TRUE, 300)),
     CostSummary(U64Max, I64(FALSE, 0))}

\* Line 467: net_used.max(0) as u64
ClampNet(net_used) == IF net_used.neg THEN Zero64 ELSE net_used.mag

\* Line 463: 1000 * gas_price, exactly (five limbs).
OverheadExact(gas_price) == MulExact(gas_price, 1000)

\* Lines 462-467.  u64 arithmetic: a product or sum that does not fit in 64
\* bits panics in a build with overflow checks and wraps in one without;
\* `wraps` says which build this is.
Budget(gas_price, gas_used, wraps) ==
    LET product == OverheadExact(gas_price)
        overhead == Low64(product)
        net_used == gas_used.net_gas_usage
        computation == gas_used.computation_cost
        sum == AddExact(overhead, MaxOf(ClampNet(net_used), computation))
    IN  IF Overflows64(product) /\ ~wraps
            THEN [ok |-> FALSE, err |-> "attempt to multiply with overflow",
                  panic |-> TRUE]
        ELSE IF Overflows64(sum) /\ ~wraps
            THEN [ok |-> FALSE, err |-> "attempt to add with overflow", panic |-> TRUE]
        ELSE [ok |-> TRUE, overhead |-> overhead, budget |-> Low64(sum)]

\* The dry run built without a budget.
DryRunTxNoBudget(sender, kind, max_budget, gas_price) ==
    [kind |-> kind, sender |-> sender, payment |-> <<>>, budget |-> Zero64,
     price |-> gas_price, sponsor |-> None]

\* Lines 444-454: tx_data_for_dry_run(sender, kind, max_budget, gas_price,
\* no payment, no sponsor).
DryRunTx(sender, kind, max_budget, gas_price) ==
    [kind |-> kind, sender |-> sender, payment |-> <<>>, budget |-> max_budget,
     price |-> gas_price, sponsor |-> None]

\* The filter of lines 506-510 with the arms of the owned and the shared
\* objects exchanged.
ExcludeShared(input_objects) ==
    {input_objects[i].id :
        i \in {j \in 1..Len(input_objects) :
                 input_objects[j].tag = "SharedMoveObject"}}

\* Lines 503-511: the ids of the ImmOrOwnedMoveObject inputs.
Exclude(input_objects) ==
    {input_objects[i].id :
        i \in {j \in 1..Len(input_objects) :
                 input_objects[j].tag = "ImmOrOwnedMoveObject"}}

\* The gas coins of the wallet; gas_for_owner_budget answers with one that
\* is not excluded, or fails.
Coins == {<<i, 1, "dA">> : i \in ObjectIds}

\* Lines 473-480.
TransactionData(kind, sender, sponsor, gas_coin, budget, gas_price) ==
    [kind |-> kind, sender |-> sender, payment |-> <<gas_coin>>, budget |-> budget,
     price |-> gas_price, sponsor |-> sponsor]

-----------------------------------------------------------------------------
(* Submission: lines 376-410 and 523-539.                                  *)

\* SuiTransactionBlockResponse, as far as it is read: the effects' status
\* and the object changes.
Success == [tag |-> "Success"]
Failure(e) == [tag |-> "Failure", error |-> e]
Statuses == {Success, Failure("MoveAbort in shared::place_mark: cell occupied")}

Created(t, i) == [tag |-> "Created", object_type |-> t, object_id |-> i]
Mutated(t, i) == [tag |-> "Mutated", object_type |-> t, object_id |-> i]

\* The kinds of change a log can hold; the object id of a change is its
\* position in the log.
ChangeKinds ==
    {[tag |-> "Created", object_type |-> StructTag(a, "shared", n)] :
        a \in {ConfiguredPackage, OtherPackage(ConfiguredPackage)},
        n \in {"Game", "Other"}}
      \cup {[tag |-> "Mutated",
              object_type |-> StructTag(ConfiguredPackage, "shared", "Game")]}

ObjectChanges(kinds) ==
    [i \in 1..Len(kinds) |->
        IF kinds[i].tag = "Created" THEN Created(kinds[i].object_type, i)
        ELSE Mutated(kinds[i].object_type, i)]

ExecResponses ==
    {[effects |-> e, object_changes |-> c] :
        e \in {None} \cup {Some([status |-> s]) : s \in Statuses},
        c \in {None} \cup {Some(ObjectChanges(k)) :
                              k \in SeqsUpTo(ChangeKinds, MaxChanges)}}

\* execute_transaction without the check of the status (lines 534-536).
execute_transaction_unchecked(r) ==
    IF ~r.effects.some THEN Err("Failed to find effects for transaction")
    ELSE [ok |-> TRUE, response |-> r]

\* Lines 530-538, after the wallet answered with a response.
execute_transaction(r) ==
    IF ~r.effects.some THEN Err("Failed to find effects for transaction")
    ELSE IF r.effects.v.status.tag = "Failure" THEN Err(r.effects.v.status.error)
    ELSE [ok |-> TRUE, response |-> r]

\* The find_map without the check of the package (lines 396-398).
RECURSIVE FindGameAnyPackage(_, _, _)
FindGameAnyPackage(changes, i, pkg) ==
    IF i > Len(changes) THEN None
    ELSE LET change == changes[i]
         IN  IF change.tag # "Created" THEN FindGameAnyPackage(changes, i + 1, pkg)
             ELSE IF change.object_type.name # "Game"
                 THEN FindGameAnyPackage(changes, i + 1, pkg)
             ELSE Some(change.object_id)

\* Lines 386-405: find_map over the object changes.
RECURSIVE FindGame(_, _, _)
FindGame(changes, i, pkg) ==
    IF i > Len(changes) THEN None
    ELSE LET change == changes[i]
         IN  IF change.tag # "Created" THEN FindGame(changes, i + 1, pkg)
             ELSE IF ObjectIDFrom(change.object_type.address) # pkg
                 THEN FindGame(changes, i + 1, pkg)
             ELSE IF change.object_type.name # "Game"
                 THEN FindGame(changes, i + 1, pkg)
             ELSE Some(change.object_id)

\* Lines 378-409, after the wallet answered with a response.
execute_for_game(r, pkg) ==
    LET executed == execute_transaction(r)
    IN  IF ~executed.ok THEN executed
        ELSE IF ~executed.response.object_changes.some THEN Err("Can't find Game ID")
        ELSE LET game_id == FindGame(executed.response.object_changes.v, 1, pkg)
             IN  IF ~game_id.some THEN Err("Can't find Game ID")
                 ELSE [ok |-> TRUE, game_id |-> game_id.v]

-----------------------------------------------------------------------------
(* The state after Client::new (lines 59-76), and the calls of the read    *)
(* operations.                                                             *)

Init ==
    /\ package = ConfiguredPackage
    /\ wallet = [active_address |-> "addrA"]
    /\ op = "idle"
    /\ pc = "idle"
    /\ args = None
    /\ log = <<>>
    /\ result = None
    /\ response = None
    /\ ptb = None
    /\ results = None
    /\ cursor = None
    /\ page = None
    /\ scanned = None
    /\ tx = None
    /\ est = None
    /\ tx_data = None
    /\ signed = None
    /\ exec = None
    /\ history = None

\* A call ends: its Result is in `result`.
Finish(r) ==
    /\ pc' = "done"
    /\ result' = r

\* The answers of the node to game(): any, or what the remembered call
\* observed when the ledger has stayed as it was.
ObjectAnswers ==
    IF history.some THEN {history.v.response} ELSE GameResponses

InspectAnswers ==
    IF history.some THEN {history.v.results} ELSE DevInspectResults

\* game(id), line 80: self.client().await?
GameCall(id) ==
    /\ op = "idle"
    /\ op' = "game"
    /\ args' = [id |-> id]
    /\ log' = <<"get_client">>
    /\ \E client \in BOOLEAN :
        IF client THEN pc' = "get_object" /\ result' = None
        ELSE Finish(Err("Error fetching client"))
    /\ UNCHANGED <<clientVars, history, gameVars, capVars, txVars>>

\* Lines 83-164: the answer of get_object_with_options arrives; the object
\* is validated and decoded and the `ended` call is built.
GameFetched ==
    /\ op = "game"
    /\ pc = "get_object"
    /\ log' = Append(log, "get_object")
    /\ \E answer \in {Err("Error fetching game over RPC.")}
                        \cup {[ok |-> TRUE, response |-> r] : r \in ObjectAnswers} :
        IF ~answer.ok
            THEN Finish(answer) /\ UNCHANGED <<response, ptb>>
        ELSE LET g == DecodeGame(answer.response, args.id, package)
             IN  /\ response' = Some(answer.response)
                 /\ IF g.ok
                      THEN /\ ptb' = Some(EndedCall(g, args.id, package))
                           /\ pc' = "dev_inspect"
                           /\ result' = None
                      ELSE Finish(g) /\ ptb' = ptb
    /\ UNCHANGED <<clientVars, history, op, args, results, capVars, txVars>>

\* game() with the `ended` call submitted for execution instead of
\* simulated.
GameExecuted ==
    /\ op = "game"
    /\ pc = "dev_inspect"
    /\ log' = Append(log, "execute_transaction_may_fail")
    /\ \E answer \in {Err("Error checking game winner.")}
                        \cup {[ok |-> TRUE, results |-> r] : r \in InspectAnswers} :
        IF ~answer.ok
            THEN Finish(answer) /\ results' = results
        ELSE /\ results' = Some(answer.results)
             /\ Finish(GameResult(DecodeGame(response.v, args.id, package),
                                  answer.results))
    /\ UNCHANGED <<clientVars, history, op, args, response, ptb, capVars, txVars>>

\* Lines 166-208: the answer of dev_inspect_transaction_block arrives.
GameInspected ==
    /\ op = "game"
    /\ pc = "dev_inspect"
    /\ log' = Append(log, "dev_inspect")
    /\ \E answer \in {Err("Error checking game winner.")}
                        \cup {[ok |-> TRUE, results |-> r] : r \in InspectAnswers} :
        IF ~answer.ok
            THEN Finish(answer) /\ results' = results
        ELSE /\ results' = Some(answer.results)
             /\ Finish(GameResult(DecodeGame(response.v, args.id, package),
                                  answer.results))
    /\ UNCHANGED <<clientVars, history, op, args, response, ptb, capVars, txVars>>

\* turn_cap(game), lines 214-230.
TurnCapCall(game_id) ==
    /\ op = "idle"
    /\ op' = "turn_cap"
    /\ args' = [game_id |-> game_id]
    /\ \E address \in BOOLEAN, client \in BOOLEAN :
        IF ~address
            THEN log' = <<"active_address">>
                 /\ Finish(Err("No active address"))
        ELSE IF ~client
            THEN log' = <<"active_address", "get_client">>
                 /\ Finish(Err("Error fetching client"))
        ELSE log' = <<"active_address", "get_client">>
             /\ pc' = "get_owned_objects"
             /\ result' = None
    /\ cursor' = None
    /\ page' = None
    /\ scanned' = [requests |-> <<>>, matching |-> 0, fatal |-> 0]
    /\ UNCHANGED <<clientVars, history, gameVars, txVars>>

\* The entries of a page that are TurnCaps of the game, and those that
\* carry an error or are TurnCaps that do not decode.
Matching(kinds, game_id) ==
    Cardinality({i \in 1..Len(kinds) : kinds[i] = EntryKind("cap", game_id)})
Fatal(kinds) ==
    Cardinality({i \in 1..Len(kinds) : kinds[i].k \in {"error", "corrupt"}})

\* The loop without line 270: the cursor is never advanced.
NextCursorStale(current, answer) == current

\* Line 270: cursor = response.next_cursor
NextCursor(current, answer) == answer.next_cursor

\* Line 271: if !response.has_next_page
LastPage(answer) == ~answer.has_next_page

\* Lines 231-274: one turn of the loop.  The answer of get_owned_objects
\* for the current cursor arrives and the page is scanned; the loop goes on
\* when nothing on the page ended it and the page has a next page, and the
\* response is dropped with the turn.
TurnCapPage ==
    /\ op = "turn_cap"
    /\ pc = "get_owned_objects"
    /\ Len(scanned.requests) <= MaxPages
    /\ log' = Append(log, "get_owned_objects")
    /\ \E fetched \in BOOLEAN, kinds \in SeqsUpTo(EntryKinds, MaxPageLen),
          more \in BOOLEAN :
        /\ more => PageOf(cursor) < MaxPages
        /\ ~fetched => (kinds = <<>> /\ ~more)
        /\ LET answer == PageResponse(kinds, PageOf(cursor), more, package)
               scan == ScanPage(answer.data, 1, args.game_id, package)
           IN  IF ~fetched
                 THEN /\ Finish(Err("Error fetching TurnCaps from RPC."))
                      /\ UNCHANGED <<cursor, page>>
                      /\ scanned' = [scanned EXCEPT !.requests = Append(@, cursor)]
               ELSE /\ scanned' = [requests |-> Append(scanned.requests, cursor),
                                   matching |-> scanned.matching
                                                  + Matching(kinds, args.game_id),
                                   fatal |-> scanned.fatal + Fatal(kinds)]
                    /\ IF scan.tag = "bail"
                         THEN /\ Finish(Err(scan.err))
                              /\ cursor' = cursor
                              /\ page' = Some([answer |-> answer, scan |-> scan])
                       ELSE IF scan.tag = "return"
                         THEN /\ Finish([ok |-> TRUE, ref |-> scan.ref])
                              /\ cursor' = cursor
                              /\ page' = Some([answer |-> answer, scan |-> scan])
                       ELSE /\ cursor' = NextCursor(cursor, answer)
                            /\ IF LastPage(answer)
                                 THEN Finish(Err("Could not find TurnCap. Is it your turn?"))
                                      /\ page' = Some([answer |-> answer, scan |-> scan])
                                 ELSE pc' = pc /\ result' = result /\ page' = None
    /\ UNCHANGED <<clientVars, history, op, args, gameVars, txVars>>

-----------------------------------------------------------------------------
(* The mutating operations: lines 279-373 and 413-539.                     *)

\* Lines 413-431: build_tx_data_with_sponsor(sender, sponsor, kind) starts
\* with self.client().await?
StartBuild(calls, sender, sponsor, kind, client) ==
    /\ tx' = [sender |-> sender, sponsor |-> sponsor, kind |-> kind]
    /\ log' = calls \o <<"get_client">>
    /\ IF client THEN pc' = "max_gas_budget" /\ result' = None
       ELSE Finish(Err("Error fetching client"))

\* new_shared_game(opponent), lines 279-294.
NewSharedGameCall(opponent) ==
    /\ op = "idle"
    /\ op' = "new_shared_game"
    /\ args' = [opponent |-> opponent]
    /\ \E address \in BOOLEAN, client \in BOOLEAN :
        IF ~address
            THEN /\ log' = <<"active_address">>
                 /\ Finish(Err("No active address"))
                 /\ tx' = tx
        ELSE LET player == wallet.active_address
             IN  StartBuild(<<"active_address">>, player, None,
                            NewSharedGameTx(player, opponent, package), client)
    /\ UNCHANGED <<clientVars, history, gameVars, capVars, est, tx_data, signed, exec>>

\* delete_shared_game(game, owner), lines 300-326.
DeleteSharedGameCall(game, owner) ==
    /\ op = "idle"
    /\ op' = "delete_shared_game"
    /\ args' = [game |-> game, owner |-> owner]
    /\ \E address \in BOOLEAN, client \in BOOLEAN :
        IF ~address
            THEN /\ log' = <<"active_address">>
                 /\ Finish(Err("No active address"))
                 /\ tx' = tx
        ELSE IF owner.tag # "Shared"
            THEN /\ log' = <<"active_address">>
                 /\ Finish(Err("Game is not shared"))
                 /\ tx' = tx
        ELSE LET player == wallet.active_address
             IN  StartBuild(<<"active_address">>, player, None,
                            DeleteSharedGameTx(game, owner.initial_shared_version,
                                               package),
                            client)
    /\ UNCHANGED <<clientVars, history, gameVars, capVars, est, tx_data, signed, exec>>

\* make_shared_move without the test of the ownership: a game that is not
\* shared is referenced with the initial shared version 1.
MakeSharedMoveCallUnchecked(game, owner, row, col) ==
    /\ op = "idle"
    /\ op' = "make_shared_move"
    /\ args' = [game |-> game, owner |-> owner, row |-> row, col |-> col]
    /\ \E address \in BOOLEAN, client \in BOOLEAN :
        IF ~address
            THEN /\ log' = <<"active_address">>
                 /\ Finish(Err("No active address"))
                 /\ tx' = tx
        ELSE LET player == wallet.active_address
                 initial_shared_version ==
                     IF owner.tag = "Shared" THEN owner.initial_shared_version
                     ELSE 1
             IN  StartBuild(<<"active_address">>, player, None,
                            MakeSharedMoveTx(game, initial_shared_version,
                                             row, col, package),
                            client)
    /\ UNCHANGED <<clientVars, history, gameVars, capVars, est, tx_data, signed, exec>>

\* make_shared_move(game, owner, row, col), lines 334-369.
MakeSharedMoveCall(game, owner, row, col) ==
    /\ op = "idle"
    /\ op' = "make_shared_move"
    /\ args' = [game |-> game, owner |-> owner, row |-> row, col |-> col]
    /\ \E address \in BOOLEAN, client \in BOOLEAN :
        IF ~address
            THEN /\ log' = <<"active_address">>
                 /\ Finish(Err("No active address"))
                 /\ tx' = tx
        ELSE IF owner.tag # "Shared"
            THEN /\ log' = <<"active_address">>
                 /\ Finish(Err("Game is not shared"))
                 /\ tx' = tx
        ELSE LET player == wallet.active_address
             IN  StartBuild(<<"active_address">>, player, None,
                            MakeSharedMoveTx(game, owner.initial_shared_version,
                                             row, col, package),
                            client)
    /\ UNCHANGED <<clientVars, history, gameVars, capVars, est, tx_data, signed, exec>>

\* The skeletons a caller of build_tx_data_with_sponsor can pass: one call
\* with up to MaxInputs object inputs, owned or shared, of distinct objects.
ObjectArgs ==
    {Object(ImmOrOwnedObject(i, 1, "dA")) : i \in ObjectIds}
        \cup {Object(SharedObject(i, 1, TRUE)) : i \in ObjectIds}

CallerInputs ==
    {s \in SeqsUpTo(ObjectArgs, MaxInputs) :
        \A i, j \in 1..Len(s) : i # j => s[i].object.id # s[j].object.id}

CallerTx(inputs, pkg) ==
    MoveCall(inputs, pkg, "owned", "call",
             [i \in 1..Len(inputs) |-> [tag |-> "Input", index |-> i - 1]])

\* build_tx_data_with_sponsor(sender, sponsor, kind), lines 425-431, called
\* on its own.
BuildTxCall(sender, sponsor, inputs) ==
    /\ op = "idle"
    /\ op' = "build_tx_data_with_sponsor"
    /\ args' = [sender |-> sender, sponsor |-> sponsor]
    /\ \E client \in BOOLEAN :
        StartBuild(<<>>, sender, sponsor, CallerTx(inputs, package), client)
    /\ UNCHANGED <<clientVars, history, gameVars, capVars, est, tx_data, signed, exec>>

Building == op \in {"new_shared_game", "delete_shared_game", "make_shared_move",
                    "build_tx_data_with_sponsor"}

\* Lines 433 and 484-493: max_gas_budget().
MaxGasBudget ==
    /\ Building
    /\ pc = "max_gas_budget"
    /\ \E client \in BOOLEAN,
          answer \in {Err("protocol config RPC error")}
                        \cup {[ok |-> TRUE, cfg |-> c] : c \in ProtocolConfigs} :
        IF ~client
            THEN /\ log' = Append(log, "get_client")
                 /\ Finish(Err("Error fetching client"))
                 /\ est' = est
        ELSE /\ log' = log \o <<"get_client", "get_protocol_config">>
             /\ IF ~answer.ok THEN Finish(answer) /\ est' = est
                ELSE LET max == max_gas_budget(answer.cfg)
                     IN  IF ~max.ok
                           THEN Finish(max) /\ est' = [config |-> answer.cfg]
                         ELSE /\ est' = [max_budget |-> max.max]
                              /\ pc' = "get_reference_gas_price"
                              /\ result' = None
    /\ UNCHANGED <<clientVars, history, op, args, gameVars, capVars, tx, tx_data, signed, exec>>

\* Lines 435-439.
ReferenceGasPrice ==
    /\ Building
    /\ pc = "get_reference_gas_price"
    /\ log' = Append(log, "get_reference_gas_price")
    /\ \E answer \in {Err("Error fetching reference gas price")}
                        \cup {[ok |-> TRUE, price |-> g] : g \in GasPrices} :
        IF ~answer.ok THEN Finish(answer) /\ est' = est
        ELSE /\ est' = [max_budget |-> est.max_budget, gas_price |-> answer.price]
             /\ pc' = "dry_run"
             /\ result' = None
    /\ UNCHANGED <<clientVars, history, op, args, gameVars, capVars, tx, tx_data, signed, exec>>

\* Lines 441-467: the dry run and the budget.
DryRun ==
    /\ Building
    /\ pc = "dry_run"
    /\ log' = Append(log, "dry_run_transaction_block")
    /\ \E answer \in {Err("Error estimating gas budget")}
                        \cup {[ok |-> TRUE, gas_used |-> c] : c \in CostSummaries},
          wraps \in BOOLEAN :
        LET dry == DryRunTx(tx.sender, tx.kind, est.max_budget, est.gas_price)
        IN  IF ~answer.ok THEN Finish(answer) /\ est' = est
            ELSE LET b == Budget(est.gas_price, answer.gas_used, wraps)
                 IN  IF ~b.ok
                       THEN /\ Finish(b)
                            /\ est' = [max_budget |-> est.max_budget,
                                       gas_price |-> est.gas_price,
                                       dry_run_tx |-> dry,
                                       gas_used |-> answer.gas_used]
                       ELSE /\ est' = [max_budget |-> est.max_budget,
                                       gas_price |-> est.gas_price,
                                       dry_run_tx |-> dry,
                                       gas_used |-> answer.gas_used,
                                       overhead |-> b.overhead,
                                       budget |-> b.budget]
                            /\ pc' = "select_coins"
                            /\ result' = None
    /\ UNCHANGED <<clientVars, history, op, args, gameVars, capVars, tx, tx_data, signed, exec>>

\* The gas always taken from the sender, sponsored or not.
GasOwnerSender(sender, sponsor) == sender

\* Line 470: sponsor.unwrap_or(sender)
GasOwner(sender, sponsor) == IF sponsor.some THEN sponsor.v ELSE sender

\* Lines 469-480 and 497-519: select_coins and the finalized transaction.
\* build_tx_data_with_sponsor returns; its caller goes on to sign.
SelectCoins ==
    /\ Building
    /\ pc = "select_coins"
    /\ \E inputs \in BOOLEAN, answer \in {Err("Cannot find gas coin")}
                                 \cup {[ok |-> TRUE, coin |-> c] : c \in Coins} :
        LET exclude == Exclude(InputObjects(tx.kind))
            owner == GasOwner(tx.sender, tx.sponsor)
        IN  /\ answer.ok => answer.coin[1] \notin exclude
            /\ IF ~inputs
                 THEN /\ Finish(Err("input_objects failed"))
                      /\ UNCHANGED <<log, est, tx_data>>
               ELSE /\ log' = Append(log, "gas_for_owner_budget")
                    /\ est' = [max_budget |-> est.max_budget,
                               gas_price |-> est.gas_price,
                               dry_run_tx |-> est.dry_run_tx,
                               gas_used |-> est.gas_used,
                               overhead |-> est.overhead,
                               budget |-> est.budget,
                               request |-> [owner |-> owner, balance |-> est.budget,
                                            exclude |-> exclude]]
                    /\ IF ~answer.ok THEN Finish(answer) /\ tx_data' = tx_data
                       ELSE LET data == TransactionData(tx.kind, tx.sender, tx.sponsor,
                                             answer.coin, est.budget, est.gas_price)
                            IN  /\ tx_data' = Some(data)
                                /\ IF op = "build_tx_data_with_sponsor"
                                     THEN Finish([ok |-> TRUE, data |-> data])
                                     ELSE pc' = "sign_transaction" /\ result' = None
    /\ UNCHANGED <<clientVars, history, op, args, gameVars, capVars, tx, signed, exec>>

\* Signing the transaction of the dry run (line 458), which has no gas
\* payment, in place of the funded one.
SignTransactionUnfunded ==
    /\ Building
    /\ op # "build_tx_data_with_sponsor"
    /\ pc = "select_coins"
    /\ log' = Append(log, "sign_transaction")
    /\ signed' = Some([data |-> est.dry_run_tx, signer |-> wallet.active_address])
    /\ pc' = "execute_transaction"
    /\ UNCHANGED <<clientVars, history, op, args, result, gameVars, capVars, tx, est, tx_data,
                   exec>>

\* Lines 327, 370 and 377: self.wallet.sign_transaction(&data).
SignTransaction ==
    /\ Building
    /\ pc = "sign_transaction"
    /\ log' = Append(log, "sign_transaction")
    /\ signed' = Some([data |-> tx_data.v, signer |-> wallet.active_address])
    /\ pc' = "execute_transaction"
    /\ UNCHANGED <<clientVars, history, op, args, result, gameVars, capVars, tx, est, tx_data,
                   exec>>

\* The submission with a retry: a transaction whose effects report a
\* failure is submitted again (up to three submissions).
ExecuteTransactionRetry ==
    /\ Building
    /\ pc = "execute_transaction"
    /\ log' = Append(log, "execute_transaction_may_fail")
    /\ \E answer \in {Err("Error executing transaction")}
                        \cup {[ok |-> TRUE, response |-> r] : r \in ExecResponses} :
        IF ~answer.ok THEN Finish(answer) /\ exec' = exec
        ELSE /\ exec' = Some(answer.response)
             /\ LET executed == execute_transaction(answer.response)
                IN  IF /\ ~executed.ok
                       /\ answer.response.effects.some
                       /\ Len(log) < 11
                      THEN pc' = pc /\ result' = result
                    ELSE IF op = "new_shared_game"
                      THEN Finish(execute_for_game(answer.response, package))
                    ELSE IF executed.ok THEN Finish([ok |-> TRUE])
                    ELSE Finish(executed)
    /\ UNCHANGED <<clientVars, history, op, args, gameVars, capVars, tx, est, tx_data, signed>>

\* Lines 328, 371, 381 and 523-539: the submission and what the operation
\* makes of its response.
ExecuteTransaction ==
    /\ Building
    /\ pc = "execute_transaction"
    /\ log' = Append(log, "execute_transaction_may_fail")
    /\ \E answer \in {Err("Error executing transaction")}
                        \cup {[ok |-> TRUE, response |-> r] : r \in ExecResponses} :
        IF ~answer.ok THEN Finish(answer) /\ exec' = exec
        ELSE /\ exec' = Some(answer.response)
             /\ IF op = "new_shared_game"
                  THEN Finish(execute_for_game(answer.response, package))
                  ELSE LET executed == execute_transaction(answer.response)
                       IN  IF executed.ok THEN Finish([ok |-> TRUE])
                           ELSE Finish(executed)
    /\ UNCHANGED <<clientVars, history, op, args, gameVars, capVars, tx, est, tx_data, signed>>

\* The caller takes the Result; the client is ready for the next call.
\* Nothing of a call is kept (no cache): the locals are dropped.
Reset ==
    /\ pc = "done"
    /\ op' = "idle"
    /\ pc' = "idle"
    /\ args' = None
    /\ log' = <<>>
    /\ result' = None
    /\ response' = None
    /\ ptb' = None
    /\ results' = None
    /\ cursor' = None
    /\ page' = None
    /\ scanned' = None
    /\ tx' = None
    /\ est' = None
    /\ tx_data' = None
    /\ signed' = None
    /\ exec' = None
    /\ UNCHANGED clientVars

Return == Reset /\ UNCHANGED history

\* The caller of game() takes the Result while the ledger stays as it is:
\* what the call observed and returned is remembered, and the calls that
\* follow observe the same object at the same version.
GameReturn ==
    /\ op = "game"
    /\ response.some
    /\ results.some
    /\ ~history.some
    /\ history' = Some([response |-> response.v, results |-> results.v,
                        result |-> result])
    /\ Reset

\* The arguments of the calls.
Games == {[board_id |-> i] : i \in ObjectIds}
Cells == {0, 2}

Next ==
    \/ \E id \in ObjectIds : GameCall(id)
    \/ GameFetched
    \/ GameInspected
    \/ \E game_id \in ObjectIds : TurnCapCall(game_id)
    \/ TurnCapPage
    \/ \E opponent \in Addresses : NewSharedGameCall(opponent)
    \/ \E game \in Games, owner \in Owners : DeleteSharedGameCall(game, owner)
    \/ \E game \in Games, owner \in Owners, row \in Cells, col \in Cells :
          MakeSharedMoveCall(game, owner, row, col)
    \/ \E sender \in Addresses, sponsor \in {None, Some("addrB")},
          inputs \in CallerInputs : BuildTxCall(sender, sponsor, inputs)
    \/ MaxGasBudget
    \/ ReferenceGasPrice
    \/ DryRun
    \/ SelectCoins
    \/ SignTransaction
    \/ ExecuteTransaction
    \/ Return

Spec == Init /\ [][Next]_vars

\* Calls of game() one after the other, the later ones on a ledger that
\* has not changed since the remembered one.
NextGame ==
    \/ \E id \in ObjectIds : GameCall(id)
    \/ GameFetched
    \/ GameInspected
    \/ Return
    \/ GameReturn

SpecGame == Init /\ [][NextGame]_vars

-----------------------------------------------------------------------------
(* Properties of game().                                                   *)

\* The first byte of the first return value of the first result, if any.
HasFirstByte(res) ==
    /\ res.some
    /\ Len(res.v) > 0
    /\ Len(res.v[1].return_values) > 0
    /\ Len(res.v[1].return_values[1]) > 0
FirstByte(res) == res.v[1].return_values[1][1]

GameInspectionDone == op = "game" /\ pc = "done" /\ results.some

\* C1: once the simulated call has answered, game() returns a Game whose
\* winner is None, Draw or Win when the first byte of the first return
\* value of the first result is 0, 1 or 2, and fails with "Error checking
\* game winner." (no Game, no default winner) for any other byte and when
\* the results, the first result, its return values or the bytes are absent
\* or empty.
C1_OutcomeByteMapping ==
    GameInspectionDone =>
        LET res == results.v
        IN  IF HasFirstByte(res) /\ FirstByte(res) \in {0, 1, 2}
              THEN /\ result.ok
                   /\ result.game.winner =
                        (CASE FirstByte(res) = 0 -> "None"
                           [] FirstByte(res) = 1 -> "Draw"
                           [] FirstByte(res) = 2 -> "Win")
              ELSE result = Err("Error checking game winner.")

\* The call answered with byte 3 and game() failed.
C1_Witness ==
    /\ GameInspectionDone
    /\ HasFirstByte(results.v)
    /\ FirstByte(results.v) = 3
    /\ ~result.ok

\* A typed object was fetched (data, owner and contents present) whose
\* type is declared by another package than the configured one.
FetchedForeignObject ==
    /\ op = "game"
    /\ pc = "done"
    /\ response.some
    /\ response.v.data.some
    /\ response.v.data.v.owner.some
    /\ response.v.data.v.bcs.some
    /\ response.v.data.v.bcs.v.tag = "MoveObject"
    /\ response.v.data.v.bcs.v.type_.address # package

WrongPackage == Err("It is expected to be from another package")

\* C2 as stated: every fetched typed object of another package makes game()
\* fail with the wrong-package error, whatever its type name, module name
\* and bytes.
C2_Original == FetchedForeignObject => result = WrongPackage

\* C2: every fetched typed object of another package whose response
\* carries no error and whose type name is Game makes game() fail with the
\* wrong-package error, whatever its module name and bytes.
C2_WrongPackage ==
    (/\ FetchedForeignObject
     /\ ~response.v.error.some
     /\ response.v.data.v.bcs.v.type_.name = "Game")
        => result = WrongPackage

\* A Game of another package, of an unknown module and with bytes that do
\* not decode, was rejected for its package.
C2_Witness ==
    /\ FetchedForeignObject
    /\ ~response.v.error.some
    /\ response.v.data.v.bcs.v.type_.name = "Game"
    /\ response.v.data.v.bcs.v.type_.module = "other"
    /\ response.v.data.v.bcs.v.bcs_bytes = Garbage
    /\ result = WrongPackage

-----------------------------------------------------------------------------
(* Properties of turn_cap().                                               *)

NoTurn == Err("Could not find TurnCap. Is it your turn?")

\* The cursors of n page requests made in cursor order: none, then the
\* cursor of each page in turn.
CursorOrder(n) == [i \in 1..n |-> IF i = 1 THEN None ELSE Some(i - 1)]

\* turn_cap ended after a page was fetched, and no entry of any fetched
\* page was a TurnCap of the game.
ScanEndedWithoutMatch ==
    /\ op = "turn_cap"
    /\ pc = "done"
    /\ page.some
    /\ scanned.matching = 0

\* C3 as stated: when no entry of any page is a TurnCap of the game,
\* turn_cap has fetched each page once and fails with NoTurn.
C3_Original ==
    ScanEndedWithoutMatch =>
        /\ result = NoTurn
        /\ scanned.requests = CursorOrder(Len(scanned.requests))

\* C3: each page is requested once, in cursor order, and at most MaxPages
\* pages are requested; when no entry of any page is a TurnCap of the game,
\* no entry carries an error and no TurnCap fails to decode, turn_cap ends
\* on the page that reports no next page and fails with NoTurn - after one
\* request when the first page is empty and has no next page.
C3_NoTurnTermination ==
    /\ (op = "turn_cap" =>
          /\ scanned.requests = CursorOrder(Len(scanned.requests))
          /\ Len(scanned.requests) <= MaxPages)
    /\ ((ScanEndedWithoutMatch /\ scanned.fatal = 0) =>
          (result = NoTurn /\ ~page.v.answer.has_next_page))
    /\ ((/\ ScanEndedWithoutMatch
         /\ Len(scanned.requests) = 1
         /\ page.v.answer.data = <<>>
         /\ ~page.v.answer.has_next_page) => result = NoTurn)

\* turn_cap failed with NoTurn after two pages without a TurnCap of the
\* game.
C3_Witness ==
    /\ ScanEndedWithoutMatch
    /\ scanned.fatal = 0
    /\ Len(scanned.requests) = 2
    /\ Len(page.v.answer.data) > 0
    /\ result = NoTurn

-----------------------------------------------------------------------------
(* Properties of the gas estimation and the coin selection.                *)

Estimated == "budget" \in DOMAIN est

\* overhead + max(net_gas_usage, computation_cost) over the integers, in
\* six limbs: a negative net usage is below every computation cost.
ExactBudget(gas_price, gas_used) ==
    AddExact(MulExact(gas_price, 1000),
             Pad(IF gas_used.net_gas_usage.neg THEN gas_used.computation_cost
                 ELSE MaxOf(gas_used.net_gas_usage.mag, gas_used.computation_cost),
                 5))

\* C4: the budget is 1000 * reference_gas_price + max(net_gas_usage,
\* computation_cost) for every gas price and cost summary, a negative net
\* usage included; it is 1,500,000 for the price 1000, the computation cost
\* 500000 and the net usage 200000.
C4_BudgetFormula ==
    Estimated =>
        /\ Pad(est.budget, 6) = ExactBudget(est.gas_price, est.gas_used)
        /\ ((/\ est.gas_price = U64(1000)
             /\ est.gas_used = CostSummary(U64(500000), I64(FALSE, 200000)))
              => est.budget = U64(1500000))

\* C5: the budget of a finalized transaction is at least the overhead
\* (1000 * reference_gas_price as the u64 the code computed).
C5_BudgetAtLeastOverhead ==
    tx_data.some => Leq(est.overhead, tx_data.v.budget)

\* The ids of the ImmOrOwned object inputs of a skeleton.
OwnedInputIds(kind) ==
    {kind.inputs[i].object.id :
        i \in {j \in 1..Len(kind.inputs) :
                 /\ kind.inputs[j].tag = "Object"
                 /\ kind.inputs[j].object.tag = "ImmOrOwnedObject"}}

SharedInputIds(kind) ==
    {kind.inputs[i].object.id :
        i \in {j \in 1..Len(kind.inputs) :
                 /\ kind.inputs[j].tag = "Object"
                 /\ kind.inputs[j].object.tag = "SharedObject"}}

\* C6: the exclusion set given to the wallet's coin selection is the set
\* of the ids of the skeleton's ImmOrOwned inputs (no shared input and no
\* package is in it unless an owned input has that id), and the gas coin of
\* the finalized transaction is not in that set.
C6_CoinExclusion ==
    /\ ("request" \in DOMAIN est =>
            est.request.exclude = OwnedInputIds(tx.kind))
    /\ (tx_data.some =>
            /\ Len(tx_data.v.payment) = 1
            /\ tx_data.v.payment[1][1] \notin OwnedInputIds(tx.kind))

\* A transaction with an owned and a shared input was funded.
C6_Witness ==
    /\ tx_data.some
    /\ OwnedInputIds(tx.kind) # {}
    /\ SharedInputIds(tx.kind) # {}
    /\ est.request.exclude = OwnedInputIds(tx.kind)

-----------------------------------------------------------------------------
(* Properties of the mutating operations.                                  *)

Mutating == op \in {"new_shared_game", "delete_shared_game", "make_shared_move"}

\* The collaborator interactions of a mutating operation, in the order of
\* the steps Built, Estimated, Funded, Signed, Submitted.
StepOrder ==
    <<"active_address", "get_client", "get_client", "get_protocol_config",
      "get_reference_gas_price", "dry_run_transaction_block",
      "gas_for_owner_budget", "sign_transaction", "execute_transaction_may_fail">>

IsPrefix(s, t) == Len(s) <= Len(t) /\ s = SubSeq(t, 1, Len(s))

Issued(call) == \E i \in 1..Len(log) : log[i] = call

Count(call) == Cardinality({i \in 1..Len(log) : log[i] = call})

ExecutionSucceeded ==
    /\ exec.some
    /\ exec.v.effects.some
    /\ exec.v.effects.v.status.tag = "Success"

\* C7: in every run of a mutating operation the interactions are issued in
\* the order of StepOrder, each after the one before it succeeded: a
\* finalized transaction exists only after the dry run and the coin
\* selection, a transaction is signed only when finalized (and it is the
\* finalized one), submitted only when signed, the operation succeeds only
\* after the whole sequence, and after a failed step no later step is
\* issued.
C7_StepOrder ==
    Mutating =>
        /\ IsPrefix(log, StepOrder)
        /\ (tx_data.some =>
              /\ Estimated
              /\ Issued("dry_run_transaction_block")
              /\ Issued("gas_for_owner_budget"))
        /\ (pc = "sign_transaction" => tx_data.some)
        /\ (signed.some <=> Issued("sign_transaction"))
        /\ (signed.some => tx_data.some /\ signed.v.data = tx_data.v)
        /\ (pc = "execute_transaction" => signed.some)
        /\ (exec.some => signed.some /\ Issued("execute_transaction_may_fail"))
        /\ (pc = "done" /\ result.ok => log = StepOrder /\ ExecutionSucceeded)
        /\ (pc = "done" /\ ~result.ok /\ ~Issued("gas_for_owner_budget")
              => ~tx_data.some)
        /\ (pc = "done" /\ ~tx_data.some => ~signed.some /\ ~exec.some)

\* A move was estimated, funded, signed and submitted, and succeeded.
C7_Witness ==
    /\ op = "make_shared_move"
    /\ pc = "done"
    /\ result.ok
    /\ log = StepOrder

Submitted == Mutating /\ pc = "done" /\ exec.some

NoEffects == Err("Failed to find effects for transaction")

\* C8: after the submission answered, the operation fails with NoEffects
\* when the response has no effects, fails with exactly the error string of
\* the effects when their status is Failure, and otherwise gets the
\* response back (delete and move then succeed); a mutating operation
\* succeeds only if the effects are present and report success.
C8_ExecutionStatus ==
    /\ (Submitted =>
          LET r == exec.v
          IN  /\ (~r.effects.some => result = NoEffects)
              /\ (r.effects.some /\ r.effects.v.status.tag = "Failure"
                    => result = Err(r.effects.v.status.error))
              /\ ((/\ r.effects.some
                   /\ r.effects.v.status.tag # "Failure"
                   /\ op # "new_shared_game") => result = [ok |-> TRUE]))
    /\ (Mutating /\ pc = "done" /\ result.ok => ExecutionSucceeded)

\* The ledger reported a failure and the operation failed with its reason.
C8_Witness ==
    /\ Submitted
    /\ op = "delete_shared_game"
    /\ exec.v.effects.some
    /\ exec.v.effects.v.status.tag = "Failure"
    /\ result = Err(exec.v.effects.v.status.error)

\* C9: within one call the protocol configuration is fetched, the dry run
\* made, the coin selected, the transaction signed and submitted at most
\* once each; a submission whose effects report a failure ends the call
\* with that error after the one submission.
C9_NoRetry ==
    Building =>
        /\ \A call \in {"get_protocol_config", "get_reference_gas_price",
                        "dry_run_transaction_block", "gas_for_owner_budget",
                        "sign_transaction", "execute_transaction_may_fail"} :
              Count(call) <= 1
        /\ ((/\ exec.some
             /\ exec.v.effects.some
             /\ exec.v.effects.v.status.tag = "Failure")
              => (/\ pc = "done"
                  /\ result = Err(exec.v.effects.v.status.error)
                  /\ Count("execute_transaction_may_fail") = 1))

\* A move was rejected by the ledger: one submission, and the error.
C9_Witness ==
    /\ op = "make_shared_move"
    /\ pc = "done"
    /\ exec.some
    /\ exec.v.effects.some
    /\ exec.v.effects.v.status.tag = "Failure"
    /\ ~result.ok
    /\ Count("execute_transaction_may_fail") = 1

GameIdNotFound == Err("Can't find Game ID")

\* The positions of the Created changes of a Game of the package.
CreatedGames(changes, pkg) ==
    {i \in 1..Len(changes) :
        /\ changes[i].tag = "Created"
        /\ changes[i].object_type.address = pkg
        /\ changes[i].object_type.name = "Game"}

Least(S) == CHOOSE x \in S : \A y \in S : x <= y

\* C10: after a creation transaction executed successfully,
\* new_shared_game returns the object id of the first Created change of a
\* Game of the configured package, and fails with GameIdNotFound when the
\* log is absent or has no such change; it fails with GameIdNotFound only
\* after a successful execution.
C10_CreatedGame ==
    (op = "new_shared_game" /\ pc = "done") =>
        /\ (ExecutionSucceeded =>
              LET changes == exec.v.object_changes
              IN  IF changes.some /\ CreatedGames(changes.v, package) # {}
                    THEN result =
                           [ok |-> TRUE,
                            game_id |->
                              changes.v[Least(CreatedGames(changes.v, package))].object_id]
                    ELSE result = GameIdNotFound)
        /\ (result = GameIdNotFound => ExecutionSucceeded)

\* The log held a Game created by another package before the Game of the
\* configured package, and the id of the second was returned.
C10_Witness ==
    /\ op = "new_shared_game"
    /\ pc = "done"
    /\ ExecutionSucceeded
    /\ exec.v.object_changes.some
    /\ CreatedGames(exec.v.object_changes.v, package) = {2}
    /\ exec.v.object_changes.v[1].tag = "Created"
    /\ exec.v.object_changes.v[1].object_type.name = "Game"
    /\ result = [ok |-> TRUE, game_id |-> 2]

-----------------------------------------------------------------------------
(* Properties of the scan of the owned objects.                            *)

\* What the scan sees in an entry of a page.
HasContent(e) == e.data.some /\ e.data.v.bcs.some

IsTyped(e) == HasContent(e) /\ TryAsMove(e.data.v.bcs.v).some

HasCapType(e, pkg) == IsTyped(e) /\ e.data.v.bcs.v.type_ = TurnCapType(pkg)

\* An entry without an error that has no content, is a package or has
\* another type than the capability type.
Skippable(e, pkg) == ~e.error.some /\ ~HasCapType(e, pkg)

\* An entry of the capability type whose payload does not decode.
Corrupt(e, pkg) ==
    /\ ~e.error.some
    /\ HasCapType(e, pkg)
    /\ e.data.v.bcs.v.bcs_bytes.enc # "TurnCap"

\* A capability that decodes, and one of the game.
DecodedCap(e, pkg) ==
    /\ ~e.error.some
    /\ HasCapType(e, pkg)
    /\ e.data.v.bcs.v.bcs_bytes.enc = "TurnCap"

CapOf(e, game_id, pkg) ==
    DecodedCap(e, pkg) /\ e.data.v.bcs.v.bcs_bytes.val = game_id

\* The entries before position i neither end the scan nor fail it.
PassedOver(entries, i, game_id, pkg) ==
    \A j \in 1..(i - 1) :
        \/ Skippable(entries[j], pkg)
        \/ DecodedCap(entries[j], pkg) /\ ~CapOf(entries[j], game_id, pkg)

RefOf(e) == <<e.data.v.object_id, e.data.v.version, e.data.v.digest>>

CorruptCapability == Err("INTERNAL ERROR: Failed to deserialize TurnCap.")

\* turn_cap ended on a page it fetched.
ScanEnded == op = "turn_cap" /\ pc = "done" /\ page.some

\* C11: a candidate without content, that is not a typed object or whose
\* type is not the capability type never ends the scan; the scan fails
\* with CorruptCapability exactly at a candidate of the capability type
\* whose payload does not decode; and a capability of the game that comes
\* after skipped candidates on its page is the one returned.
C11_SkipVersusFatal ==
    ScanEnded =>
        LET entries == page.v.answer.data
            scan == page.v.scan
        IN  /\ (scan.tag \in {"bail", "return"} =>
                    ~Skippable(entries[scan.at], package))
            /\ (result = CorruptCapability =>
                    /\ scan.tag = "bail"
                    /\ Corrupt(entries[scan.at], package)
                    /\ PassedOver(entries, scan.at, args.game_id, package))
            /\ \A i \in 1..Len(entries) :
                  PassedOver(entries, i, args.game_id, package) =>
                      /\ (Corrupt(entries[i], package) =>
                            result = CorruptCapability)
                      /\ (CapOf(entries[i], args.game_id, package) =>
                            result = [ok |-> TRUE, ref |-> RefOf(entries[i])])

\* A page held an entry without content and then a capability of the
\* game, which was returned.
C11_Witness ==
    /\ ScanEnded
    /\ Len(page.v.answer.data) = 2
    /\ ~page.v.answer.data[1].data.some
    /\ CapOf(page.v.answer.data[2], args.game_id, package)
    /\ result = [ok |-> TRUE, ref |-> RefOf(page.v.answer.data[2])]

\* The positions of the capabilities of the game on a page.
CapsOf(entries, game_id, pkg) ==
    {i \in 1..Len(entries) : CapOf(entries[i], game_id, pkg)}

\* C12: when turn_cap succeeds, no page before the last one fetched held a
\* capability of the game and the reference returned is that of the first
\* capability of the game on the last page fetched; the pages are requested
\* in cursor order; a capability of the game on a page without a next page
\* is returned when nothing before it on the page fails the scan; and
\* turn_cap fails with NoTurn only when no entry of any fetched page was a
\* capability of the game.
C12_FirstMatch ==
    /\ (op = "turn_cap" =>
          scanned.requests = CursorOrder(Len(scanned.requests)))
    /\ (ScanEnded =>
          LET entries == page.v.answer.data
              caps == CapsOf(entries, args.game_id, package)
          IN  /\ (result.ok =>
                    /\ caps # {}
                    /\ scanned.matching = Cardinality(caps)
                    /\ page.v.scan.at = Least(caps)
                    /\ result.ref = RefOf(entries[Least(caps)]))
              /\ ((/\ ~page.v.answer.has_next_page
                   /\ caps # {}
                   /\ PassedOver(entries, Least(caps), args.game_id, package))
                    => result.ok)
              /\ (result = NoTurn =>
                    /\ scanned.matching = 0
                    /\ caps = {}
                    /\ page.v.scan.tag = "exhausted"
                    /\ ~page.v.answer.has_next_page))

\* The second page, which has no next page, held two capabilities of the
\* game; the first of them was returned.
C12_Witness ==
    /\ ScanEnded
    /\ Len(scanned.requests) = 2
    /\ ~page.v.answer.has_next_page
    /\ CapsOf(page.v.answer.data, args.game_id, package) = {1, 2}
    /\ result = [ok |-> TRUE, ref |-> RefOf(page.v.answer.data[1])]

-----------------------------------------------------------------------------
(* Properties of the preconditions of the gas estimation.                  *)

ConfigUnavailable == Err("Couldn't find max gas budget")

EstimationFailed == Err("Error estimating gas budget")

LastCall == IF log = <<>> THEN "none" ELSE log[Len(log)]

\* Nothing after the dry run was done: no coin selected, nothing finalized,
\* signed or submitted.
NothingFunded ==
    /\ ~Issued("gas_for_owner_budget")
    /\ ~Issued("sign_transaction")
    /\ ~Issued("execute_transaction_may_fail")
    /\ ~tx_data.some
    /\ ~signed.some
    /\ ~exec.some

\* C13: the dry-run transaction carries the max_tx_gas of the protocol
\* configuration as its budget, no payment and no sponsor; a configuration
\* whose max_tx_gas is absent, unset or not a u64 ends the operation with
\* ConfigUnavailable, and a failed dry run ends it with EstimationFailed,
\* in both cases with no later step done (and no dry run in the first).
C13_EstimatorPreconditions ==
    Building =>
        /\ ("dry_run_tx" \in DOMAIN est =>
              /\ est.max_budget = MaxTxGas
              /\ est.dry_run_tx.budget = est.max_budget
              /\ est.dry_run_tx.price = est.gas_price
              /\ est.dry_run_tx.payment = <<>>
              /\ est.dry_run_tx.sponsor = None
              /\ est.dry_run_tx.kind = tx.kind
              /\ est.dry_run_tx.sender = tx.sender)
        /\ ("config" \in DOMAIN est <=> result = ConfigUnavailable)
        /\ ("config" \in DOMAIN est =>
              /\ est.config.attribute \in {"absent", "unset", "U32"}
              /\ pc = "done"
              /\ LastCall = "get_protocol_config"
              /\ ~Issued("get_reference_gas_price")
              /\ ~Issued("dry_run_transaction_block")
              /\ NothingFunded)
        /\ ((/\ pc = "done"
             /\ LastCall = "dry_run_transaction_block"
             /\ "gas_used" \notin DOMAIN est) => result = EstimationFailed)
        /\ (result = EstimationFailed =>
              /\ pc = "done"
              /\ LastCall = "dry_run_transaction_block"
              /\ NothingFunded)
        /\ \A cfg \in ProtocolConfigs :
              max_gas_budget(cfg).ok <=> cfg.attribute = "U64"

\* A move failed because max_tx_gas was not a u64.
C13_Witness ==
    /\ op = "make_shared_move"
    /\ pc = "done"
    /\ result = ConfigUnavailable
    /\ est.config.attribute = "U32"

-----------------------------------------------------------------------------
(* Properties of game() over two calls.                                    *)

\* A call of game() ended that observed what the remembered call observed:
\* the same object response and the same result of the simulated call.
ObservedAgain ==
    /\ op = "game"
    /\ pc = "done"
    /\ history.some
    /\ response = Some(history.v.response)
    /\ results = Some(history.v.results)

-----------------------------------------------------------------------------
(* Properties of the validation done by game().                            *)

NoData == Err("INTERNAL ERROR: No data for game.")
WrongKind == Err("It is a package, not an object.")
WrongType == Err("It is not a Game object")
UnrecognisedKind == Err("unrecognised Game kind")
DecodeError == Err("Failed to deserialize contents.")

\* game() got an answer to its fetch.
Fetched == op = "game" /\ response.some

\* What the answer holds, each defined when the ones before it hold.
HasData(r) == r.data.some /\ r.data.v.bcs.some /\ r.data.v.owner.some
TypeOf(r) == r.data.v.bcs.v.type_
Decodable(r) == r.data.v.bcs.v.bcs_bytes.enc = TypeOf(r).module

\* C15: the checks of game() are made in the order RPC error, missing
\* data/content/owner, package, type name, declaring package, module name,
\* payload, and the first that fails decides the error whatever the later
\* ones would say; the module `shared` gives a Shared game and `owned` an
\* Owned one, every other module is an error; and the `ended` call is built
\* and issued only for an object that passed every check.
C15_ValidationOrder ==
    Fetched =>
        LET r == response.v
            passed == pc = "dev_inspect" \/ Issued("dev_inspect")
        IN  IF r.error.some THEN result = Err(r.error.v) /\ ~passed
            ELSE IF ~HasData(r) THEN result = NoData /\ ~passed
            ELSE IF r.data.v.bcs.v.tag = "Package"
                THEN result = WrongKind /\ ~passed
            ELSE IF TypeOf(r).name # "Game" THEN result = WrongType /\ ~passed
            ELSE IF TypeOf(r).address # package
                THEN result = WrongPackage /\ ~passed
            ELSE IF TypeOf(r).module \notin {"shared", "owned"}
                THEN result = UnrecognisedKind /\ ~passed
            ELSE IF ~Decodable(r) THEN result = DecodeError /\ ~passed
            ELSE /\ passed
                 /\ ptb.some
                 /\ ptb.v.module = TypeOf(r).module
                 /\ ((pc = "done" /\ result.ok) =>
                        result.game.kind.variant =
                            (IF TypeOf(r).module = "shared" THEN "Shared"
                             ELSE "Owned"))

\* A Game of the configured package, of an unknown module and with bytes
\* that do not decode, was rejected for its module.
C15_Witness ==
    /\ Fetched
    /\ pc = "done"
    /\ ~response.v.error.some
    /\ HasData(response.v)
    /\ response.v.data.v.bcs.v.tag = "MoveObject"
    /\ TypeOf(response.v) = StructTag(package, "other", "Game")
    /\ response.v.data.v.bcs.v.bcs_bytes = Garbage
    /\ result = UnrecognisedKind

-----------------------------------------------------------------------------
(* Properties of the object references in the transactions built.          *)

\* The object arguments among the inputs of a skeleton, in order.
ObjectArgsOf(kind) ==
    SelectSeq(kind.inputs, LAMBDA input : input.tag = "Object")

HasSkeleton == "kind" \in DOMAIN tx

\* C16: the `ended` call of game() references a shared object by the id
\* asked for and the initial_shared_version of the ownership observed,
\* not mutable, and any other object by the object id, version and digest
\* observed; delete_shared_game and make_shared_move reference the game by
\* its id and the initial_shared_version of the ownership given, mutable,
\* as their only object input; new_shared_game has no object input; a
\* shared reference holds no version and no digest; and the finalized
\* transaction carries the skeleton as built.
C16_ObjectReferenceForm ==
    /\ ((op = "game" /\ ptb.some) =>
          LET d == response.v.data.v
          IN  ptb.v.arguments =
                <<IF d.owner.v.tag = "Shared"
                    THEN [tag |-> "SharedObject", id |-> args.id,
                          initial_shared_version |->
                              d.owner.v.initial_shared_version,
                          mutable |-> FALSE]
                    ELSE [tag |-> "ImmOrOwnedObject", id |-> d.object_id,
                          version |-> d.version, digest |-> d.digest]>>)
    /\ ((op \in {"delete_shared_game", "make_shared_move"} /\ HasSkeleton) =>
          ObjectArgsOf(tx.kind) =
            <<[tag |-> "Object",
               object |-> [tag |-> "SharedObject", id |-> args.game.board_id,
                           initial_shared_version |->
                               args.owner.initial_shared_version,
                           mutable |-> TRUE]]>>)
    /\ ((op = "new_shared_game" /\ HasSkeleton) => ObjectArgsOf(tx.kind) = <<>>)
    /\ ((Mutating /\ tx_data.some) => tx_data.v.kind = tx.kind)

\* game() built the `ended` call for a shared game whose version is not
\* its initial shared version.
C16_Witness ==
    /\ op = "game"
    /\ ptb.some
    /\ response.v.data.v.owner.v = SharedOwner(2)
    /\ response.v.data.v.version = 1
    /\ ptb.v.arguments[1].initial_shared_version = 2
    /\ ~ptb.v.arguments[1].mutable

-----------------------------------------------------------------------------
(* Properties of the funding.                                              *)

InsufficientFunds == Err("Cannot find gas coin")

\* C17: the coin selection asks for a coin of the sponsor when there is
\* one and of the sender otherwise, with the computed budget as balance;
\* the finalized transaction has one payment, a coin of the wallet, the
\* computed budget, the gas price of the dry run and of the overhead, and
\* the sender and sponsor of the call; and a failed coin selection ends the
\* operation with its error, nothing being finalized, signed or submitted.
C17_Funding ==
    Building =>
        /\ ("request" \in DOMAIN est =>
              /\ est.request.owner =
                    (IF tx.sponsor = None THEN tx.sender ELSE tx.sponsor.v)
              /\ est.request.balance = est.budget)
        /\ (tx_data.some =>
              /\ "request" \in DOMAIN est
              /\ Len(tx_data.v.payment) = 1
              /\ tx_data.v.payment[1] \in Coins
              /\ tx_data.v.budget = est.budget
              /\ tx_data.v.price = est.gas_price
              /\ tx_data.v.price = est.dry_run_tx.price
              /\ est.overhead = Low64(MulExact(tx_data.v.price, 1000))
              /\ tx_data.v.sender = tx.sender
              /\ tx_data.v.sponsor = tx.sponsor)
        /\ (result = InsufficientFunds =>
              /\ pc = "done"
              /\ LastCall = "gas_for_owner_budget"
              /\ ~tx_data.some
              /\ ~signed.some
              /\ ~exec.some
              /\ ~Issued("sign_transaction")
              /\ ~Issued("execute_transaction_may_fail"))
        /\ ((/\ pc = "done"
             /\ LastCall = "gas_for_owner_budget"
             /\ ~tx_data.some) => result = InsufficientFunds)

\* A sponsored transaction was funded with a coin asked of the sponsor.
C17_Witness ==
    /\ op = "build_tx_data_with_sponsor"
    /\ tx_data.some
    /\ tx.sender = "addrA"
    /\ tx.sponsor = Some("addrB")
    /\ est.request.owner = "addrB"
    /\ tx_data.v.sponsor = Some("addrB")

-----------------------------------------------------------------------------
(* Properties of the read operations.                                      *)

Reading == op \in {"game", "turn_cap"}

\* The interactions that only read: the wallet's address and client, the
\* object fetch, the page fetch and the simulated call.
ReadCalls ==
    {"active_address", "get_client", "get_object", "get_owned_objects",
     "dev_inspect"}

\* C18: a call of game() or turn_cap issues only read interactions, at
\* every point of the call and however it ends: no coin is selected,
\* nothing is estimated, finalized, signed or submitted; and no step of
\* such a call changes the wallet or the package id of the client.
C18_ReadOnly ==
    /\ [](Reading =>
            /\ \A i \in 1..Len(log) : log[i] \in ReadCalls
            /\ tx = None
            /\ est = None
            /\ ~tx_data.some
            /\ ~signed.some
            /\ ~exec.some)
    /\ [][(Reading \/ Reading') => (package' = package /\ wallet' = wallet)]_vars

\* game() returned a Game after its three read interactions.
C18_Witness ==
    /\ op = "game"
    /\ pc = "done"
    /\ result.ok
    /\ log = <<"get_client", "get_object", "dev_inspect">>
    /\ package = ConfiguredPackage

-----------------------------------------------------------------------------
(* Properties of the rejection of games that are not shared.               *)

NotShared == Err("Game is not shared")

NoActiveAddress == Err("No active address")

\* delete_shared_game or make_shared_move was called with an ownership
\* that is not Shared.
CalledOnUnshared ==
    /\ op \in {"delete_shared_game", "make_shared_move"}
    /\ args.owner.tag # "Shared"

\* Only the wallet's address was asked for: no skeleton, no estimate, no
\* coin, no signature and no submission.
NothingBuilt ==
    /\ pc = "done"
    /\ log = <<"active_address">>
    /\ tx = None
    /\ est = None
    /\ ~tx_data.some
    /\ ~signed.some
    /\ ~exec.some

\* C19 as stated: every call of delete_shared_game or make_shared_move
\* with an ownership that is not Shared fails with NotShared, nothing
\* having been built or issued.
C19_Original == CalledOnUnshared => (result = NotShared /\ NothingBuilt)

\* C19: a call of delete_shared_game or make_shared_move with an ownership
\* that is not Shared ends at once with nothing built and nothing issued
\* but the request of the wallet's active address; it fails with NotShared
\* unless the wallet has no active address, which is the error then.
C19_UnsharedRejected ==
    CalledOnUnshared =>
        /\ NothingBuilt
        /\ result \in {NotShared, NoActiveAddress}
        /\ (result # NoActiveAddress => result = NotShared)

\* A move on a game owned by an address was rejected.
C19_Witness ==
    /\ op = "make_shared_move"
    /\ args.owner = [tag |-> "AddressOwner"]
    /\ result = NotShared
    /\ NothingBuilt

-----------------------------------------------------------------------------
(* Properties of the entries that carry an error.                          *)

\* The positions of the entries of a page that carry an error.
Erroneous(entries) == {i \in 1..Len(entries) : entries[i].error.some}

\* No capability of the game comes before position i.
NoMatchBefore(entries, i, game_id, pkg) ==
    \A j \in 1..(i - 1) : ~CapOf(entries[j], game_id, pkg)

\* C20 as stated: when an entry of the page carries an error and no
\* capability of the game comes before it, turn_cap fails with that error.
C20_Original ==
    ScanEnded =>
        LET entries == page.v.answer.data
        IN  \A i \in Erroneous(entries) :
                NoMatchBefore(entries, i, args.game_id, package) =>
                    result = Err(entries[i].error.v)

\* C20: when an entry of the page carries an error and every entry before
\* it is skipped or is a capability of another game, turn_cap ends there
\* with that error, whatever follows the entry on the page and whether or
\* not the page has a next page; when a capability of the game comes
\* before the entry, with nothing before it that fails the scan, that
\* capability is returned.
C20_EntryErrorAborts ==
    ScanEnded =>
        LET entries == page.v.answer.data
        IN  \A i \in Erroneous(entries) :
              /\ (PassedOver(entries, i, args.game_id, package) =>
                    /\ result = Err(entries[i].error.v)
                    /\ page.v.scan = [tag |-> "bail", at |-> i,
                                      err |-> entries[i].error.v])
              /\ \A j \in 1..(i - 1) :
                    (/\ CapOf(entries[j], args.game_id, package)
                     /\ PassedOver(entries, j, args.game_id, package))
                        => result = [ok |-> TRUE, ref |-> RefOf(entries[j])]

\* The first entry of a page with a next page carried an error and the
\* second was a capability of the game: turn_cap failed with the error.
C20_Witness ==
    /\ ScanEnded
    /\ page.v.answer.has_next_page
    /\ Len(page.v.answer.data) = 2
    /\ page.v.answer.data[1].error.some
    /\ CapOf(page.v.answer.data[2], args.game_id, package)
    /\ result = Err(page.v.answer.data[1].error.v)

=============================================================================
